---- MODULE Spec2Model ----
(***************************************************************************)
(* Model of src/src/sd/sdmmc_cmd.rs: the SD-card command/response engine   *)
(* of the stm32f7-discovery board crate.                                   *)
(*                                                                         *)
(* The SDMMC controller is a set of registers (ARG, CMD, STA, ICR,         *)
(* RESPCMD, RESP1), the command-path state machine of the controller       *)
(* (CPSM) that answers a written command, and the system tick counter.     *)
(* The software side is one catalog function at a time, cut into steps at  *)
(* every read of a volatile location (tick counter, status register), so   *)
(* that the controller and the tick interrupt interleave with it.          *)
(*                                                                         *)
(* A u32 is the record [hi, lo] of its two 16-bit halves: TLC's integers   *)
(* are 32-bit signed and cannot hold 0x8010_0000 or 2^32 - 1.              *)
(***************************************************************************)
EXTENDS Integers, Sequences, FiniteSets, TLC

VARIABLES
    sta,          \* STA: the latched static status flags (a set of flag names)
    arg_reg,      \* ARG.cmdarg (u32)
    cmd_reg,      \* CMD: [cpsmen, waitint, waitresp, cmdindex]
    respcmd,      \* RESPCMD.respcmd: index echoed by the last response
    resp1,        \* RESP1.cardstatus1 (u32)
    cpsm,         \* TRUE while the controller still has to answer CMD
    ticks,        \* system_clock::ticks() as u32
    pc,           \* position of the running catalog function
    fn,           \* the catalog function running / last run
    decoder,      \* which wait/decoder this function uses
    cmd_idx,      \* local cmd_idx of get_cmd_resp1 / get_cmd_resp6
    timeout,      \* local `timeout` (the deadline) of idle / wait_resp
    result,       \* the Result the function returned
    writes,       \* register writes made by the running call, in order
    call,         \* bookkeeping of the running call (see NewCall)
    cs_in,        \* input of the stand-alone classifier run
    cs_out        \* its result

vars == << sta, arg_reg, cmd_reg, respcmd, resp1, cpsm, ticks, pc, fn, decoder,
           cmd_idx, timeout, result, writes, call, cs_in, cs_out >>

(***************************************************************************)
(* Bounds of the model.                                                    *)
(***************************************************************************)
\* A classified status word has at most this many bits set.
MaxSetBits == 3
\* The tick interrupt is seen to fire at most this often during one call.
MaxTickEvents == 2

(***************************************************************************)
(* u32 arithmetic on [hi, lo].                                             *)
(***************************************************************************)
Half == 256 * 256

W(h, l) == [hi |-> h, lo |-> l]

\* a + b on u32, wrapping (release build: overflow checks off).
AddU32(a, b) ==
    LET s == a.lo + b.lo
    IN  [hi |-> (a.hi + b.hi + (s \div Half)) % Half, lo |-> s % Half]

LtU32(a, b) == a.hi < b.hi \/ (a.hi = b.hi /\ a.lo < b.lo)

GeU32(a, b) == ~LtU32(a, b)

RECURSIVE And16(_, _)
And16(a, b) ==
    IF a = 0 \/ b = 0 THEN 0
    ELSE (a % 2) * (b % 2) + 2 * And16(a \div 2, b \div 2)

RECURSIVE Or16(_, _)
Or16(a, b) ==
    IF a = 0 THEN b
    ELSE IF b = 0 THEN a
    ELSE (IF a % 2 = 1 \/ b % 2 = 1 THEN 1 ELSE 0) + 2 * Or16(a \div 2, b \div 2)

\* a & b
BitAnd(a, b) == [hi |-> And16(a.hi, b.hi), lo |-> And16(a.lo, b.lo)]

\* a | b
BitOr(a, b) == [hi |-> Or16(a.hi, b.hi), lo |-> Or16(a.lo, b.lo)]

Zero32 == W(0, 0)

RECURSIVE Pow2(_)
Pow2(n) == IF n = 0 THEN 1 ELSE 2 * Pow2(n - 1)

\* The u32 with exactly the bits of S (a set of bit positions 0..31) set.
RECURSIVE HalfOf(_, _, _)
HalfOf(S, base, i) ==
    IF i = 16 THEN 0
    ELSE (IF (base + i) \in S THEN Pow2(i) ELSE 0) + HalfOf(S, base, i + 1)

WordOfBits(S) == [hi |-> HalfOf(S, 16, 0), lo |-> HalfOf(S, 0, 0)]

(***************************************************************************)
(* CardStatusFlags (super::error): the card-status bits of the SD          *)
(* physical-layer card status register and of the R6 response.             *)
(***************************************************************************)
OCR_ERROR_BITS       == W(65023, 57352)   \* 0xFDFF_E008
AKE_SEQ_ERROR        == W(0, 8)           \* 0x0000_0008
ERASE_RESET          == W(0, 8192)        \* 0x0000_2000
CARD_ECC_DISABLED    == W(0, 16384)       \* 0x0000_4000
WP_ERASE_SKIP        == W(0, 32768)       \* 0x0000_8000
CID_CSD_OVERWRITE    == W(1, 0)           \* 0x0001_0000
ERROR                == W(8, 0)           \* 0x0008_0000
CC_ERROR             == W(16, 0)          \* 0x0010_0000
CARD_ECC_FAILED      == W(32, 0)          \* 0x0020_0000
ILLEGAL_COMMAND      == W(64, 0)          \* 0x0040_0000
COM_CRC_ERROR        == W(128, 0)         \* 0x0080_0000
LOCK_UNLOCK_FAILED   == W(256, 0)         \* 0x0100_0000
WP_VIOLATION         == W(1024, 0)        \* 0x0400_0000
ERASE_PARAM          == W(2048, 0)        \* 0x0800_0000
ERASE_SEQ_ERROR      == W(4096, 0)        \* 0x1000_0000
BLOCK_LEN_ERROR      == W(8192, 0)        \* 0x2000_0000
ADDRESS_MISALIGNED   == W(16384, 0)       \* 0x4000_0000
ADDRESS_OUT_OF_RANGE == W(32768, 0)       \* 0x8000_0000
R6_GENERAL_UNKNOWN_ERROR == W(0, 8192)    \* 0x0000_2000
R6_ILLEGAL_COMMAND       == W(0, 16384)   \* 0x0000_4000
R6_CRC_FAILED            == W(0, 32768)   \* 0x0000_8000

(***************************************************************************)
(* Result<_, Error>.  t is the flag of a CardError, sd the SdmmcErrorType   *)
(* of an SdmmcError, rca the value of an Ok(u16) (-1 for Ok(())).           *)
(***************************************************************************)
NoResult == [kind |-> "none", sd |-> "none", t |-> Zero32, rca |-> -1]
Ok == [kind |-> "Ok", sd |-> "none", t |-> Zero32, rca |-> -1]
OkRca(v) == [kind |-> "Ok", sd |-> "none", t |-> Zero32, rca |-> v]
ErrTimeout == [kind |-> "Timeout", sd |-> "none", t |-> Zero32, rca |-> -1]
ErrSdmmc(e) == [kind |-> "SdmmcError", sd |-> e, t |-> Zero32, rca |-> -1]
ErrCard(f) == [kind |-> "CardError", sd |-> "none", t |-> f, rca |-> -1]

(***************************************************************************)
(* check_for_errors: the card-status error classifier.                     *)
(***************************************************************************)
\* Mutant: the tests of ILLEGAL_COMMAND and BLOCK_LEN_ERROR change places.
check_for_errors_swapped(card_status) ==
    IF BitAnd(card_status, OCR_ERROR_BITS) = Zero32 THEN Ok
    ELSE IF BitAnd(card_status, AKE_SEQ_ERROR) # Zero32 THEN ErrCard(AKE_SEQ_ERROR)
    ELSE IF BitAnd(card_status, ERASE_RESET) # Zero32 THEN ErrCard(ERASE_RESET)
    ELSE IF BitAnd(card_status, CARD_ECC_DISABLED) # Zero32 THEN ErrCard(CARD_ECC_DISABLED)
    ELSE IF BitAnd(card_status, WP_ERASE_SKIP) # Zero32 THEN ErrCard(WP_ERASE_SKIP)
    ELSE IF BitAnd(card_status, CID_CSD_OVERWRITE) # Zero32 THEN ErrCard(CID_CSD_OVERWRITE)
    ELSE IF BitAnd(card_status, CC_ERROR) # Zero32 THEN ErrCard(CC_ERROR)
    ELSE IF BitAnd(card_status, CARD_ECC_FAILED) # Zero32 THEN ErrCard(CARD_ECC_FAILED)
    ELSE IF BitAnd(card_status, BLOCK_LEN_ERROR) # Zero32 THEN ErrCard(BLOCK_LEN_ERROR)
    ELSE IF BitAnd(card_status, COM_CRC_ERROR) # Zero32 THEN ErrCard(COM_CRC_ERROR)
    ELSE IF BitAnd(card_status, LOCK_UNLOCK_FAILED) # Zero32 THEN ErrCard(LOCK_UNLOCK_FAILED)
    ELSE IF BitAnd(card_status, WP_VIOLATION) # Zero32 THEN ErrCard(WP_VIOLATION)
    ELSE IF BitAnd(card_status, ERASE_PARAM) # Zero32 THEN ErrCard(ERASE_PARAM)
    ELSE IF BitAnd(card_status, ERASE_SEQ_ERROR) # Zero32 THEN ErrCard(ERASE_SEQ_ERROR)
    ELSE IF BitAnd(card_status, ILLEGAL_COMMAND) # Zero32 THEN ErrCard(ILLEGAL_COMMAND)
    ELSE IF BitAnd(card_status, ADDRESS_MISALIGNED) # Zero32 THEN ErrCard(ADDRESS_MISALIGNED)
    ELSE IF BitAnd(card_status, ADDRESS_OUT_OF_RANGE) # Zero32 THEN ErrCard(ADDRESS_OUT_OF_RANGE)
    ELSE ErrCard(ERROR)

\* Mutant: the success test looks at the low half of the summary mask only.
check_for_errors_lowmask(card_status) ==
    IF And16(card_status.lo, OCR_ERROR_BITS.lo) = 0 THEN Ok
    ELSE IF BitAnd(card_status, AKE_SEQ_ERROR) # Zero32 THEN ErrCard(AKE_SEQ_ERROR)
    ELSE IF BitAnd(card_status, ERASE_RESET) # Zero32 THEN ErrCard(ERASE_RESET)
    ELSE IF BitAnd(card_status, CARD_ECC_DISABLED) # Zero32 THEN ErrCard(CARD_ECC_DISABLED)
    ELSE IF BitAnd(card_status, WP_ERASE_SKIP) # Zero32 THEN ErrCard(WP_ERASE_SKIP)
    ELSE IF BitAnd(card_status, CID_CSD_OVERWRITE) # Zero32 THEN ErrCard(CID_CSD_OVERWRITE)
    ELSE IF BitAnd(card_status, CC_ERROR) # Zero32 THEN ErrCard(CC_ERROR)
    ELSE IF BitAnd(card_status, CARD_ECC_FAILED) # Zero32 THEN ErrCard(CARD_ECC_FAILED)
    ELSE IF BitAnd(card_status, ILLEGAL_COMMAND) # Zero32 THEN ErrCard(ILLEGAL_COMMAND)
    ELSE IF BitAnd(card_status, COM_CRC_ERROR) # Zero32 THEN ErrCard(COM_CRC_ERROR)
    ELSE IF BitAnd(card_status, LOCK_UNLOCK_FAILED) # Zero32 THEN ErrCard(LOCK_UNLOCK_FAILED)
    ELSE IF BitAnd(card_status, WP_VIOLATION) # Zero32 THEN ErrCard(WP_VIOLATION)
    ELSE IF BitAnd(card_status, ERASE_PARAM) # Zero32 THEN ErrCard(ERASE_PARAM)
    ELSE IF BitAnd(card_status, ERASE_SEQ_ERROR) # Zero32 THEN ErrCard(ERASE_SEQ_ERROR)
    ELSE IF BitAnd(card_status, BLOCK_LEN_ERROR) # Zero32 THEN ErrCard(BLOCK_LEN_ERROR)
    ELSE IF BitAnd(card_status, ADDRESS_MISALIGNED) # Zero32 THEN ErrCard(ADDRESS_MISALIGNED)
    ELSE IF BitAnd(card_status, ADDRESS_OUT_OF_RANGE) # Zero32 THEN ErrCard(ADDRESS_OUT_OF_RANGE)
    ELSE ErrCard(ERROR)

\* Mutant: the WP_VIOLATION test is missing from the chain.
check_for_errors_dropped(card_status) ==
    IF BitAnd(card_status, OCR_ERROR_BITS) = Zero32 THEN Ok
    ELSE IF BitAnd(card_status, AKE_SEQ_ERROR) # Zero32 THEN ErrCard(AKE_SEQ_ERROR)
    ELSE IF BitAnd(card_status, ERASE_RESET) # Zero32 THEN ErrCard(ERASE_RESET)
    ELSE IF BitAnd(card_status, CARD_ECC_DISABLED) # Zero32 THEN ErrCard(CARD_ECC_DISABLED)
    ELSE IF BitAnd(card_status, WP_ERASE_SKIP) # Zero32 THEN ErrCard(WP_ERASE_SKIP)
    ELSE IF BitAnd(card_status, CID_CSD_OVERWRITE) # Zero32 THEN ErrCard(CID_CSD_OVERWRITE)
    ELSE IF BitAnd(card_status, CC_ERROR) # Zero32 THEN ErrCard(CC_ERROR)
    ELSE IF BitAnd(card_status, CARD_ECC_FAILED) # Zero32 THEN ErrCard(CARD_ECC_FAILED)
    ELSE IF BitAnd(card_status, ILLEGAL_COMMAND) # Zero32 THEN ErrCard(ILLEGAL_COMMAND)
    ELSE IF BitAnd(card_status, COM_CRC_ERROR) # Zero32 THEN ErrCard(COM_CRC_ERROR)
    ELSE IF BitAnd(card_status, LOCK_UNLOCK_FAILED) # Zero32 THEN ErrCard(LOCK_UNLOCK_FAILED)
    ELSE IF BitAnd(card_status, ERASE_PARAM) # Zero32 THEN ErrCard(ERASE_PARAM)
    ELSE IF BitAnd(card_status, ERASE_SEQ_ERROR) # Zero32 THEN ErrCard(ERASE_SEQ_ERROR)
    ELSE IF BitAnd(card_status, BLOCK_LEN_ERROR) # Zero32 THEN ErrCard(BLOCK_LEN_ERROR)
    ELSE IF BitAnd(card_status, ADDRESS_MISALIGNED) # Zero32 THEN ErrCard(ADDRESS_MISALIGNED)
    ELSE IF BitAnd(card_status, ADDRESS_OUT_OF_RANGE) # Zero32 THEN ErrCard(ADDRESS_OUT_OF_RANGE)
    ELSE ErrCard(ERROR)

check_for_errors(card_status) ==
    IF BitAnd(card_status, OCR_ERROR_BITS) = Zero32 THEN Ok
    ELSE IF BitAnd(card_status, AKE_SEQ_ERROR) # Zero32 THEN ErrCard(AKE_SEQ_ERROR)
    ELSE IF BitAnd(card_status, ERASE_RESET) # Zero32 THEN ErrCard(ERASE_RESET)
    ELSE IF BitAnd(card_status, CARD_ECC_DISABLED) # Zero32 THEN ErrCard(CARD_ECC_DISABLED)
    ELSE IF BitAnd(card_status, WP_ERASE_SKIP) # Zero32 THEN ErrCard(WP_ERASE_SKIP)
    ELSE IF BitAnd(card_status, CID_CSD_OVERWRITE) # Zero32 THEN ErrCard(CID_CSD_OVERWRITE)
    ELSE IF BitAnd(card_status, CC_ERROR) # Zero32 THEN ErrCard(CC_ERROR)
    ELSE IF BitAnd(card_status, CARD_ECC_FAILED) # Zero32 THEN ErrCard(CARD_ECC_FAILED)
    ELSE IF BitAnd(card_status, ILLEGAL_COMMAND) # Zero32 THEN ErrCard(ILLEGAL_COMMAND)
    ELSE IF BitAnd(card_status, COM_CRC_ERROR) # Zero32 THEN ErrCard(COM_CRC_ERROR)
    ELSE IF BitAnd(card_status, LOCK_UNLOCK_FAILED) # Zero32 THEN ErrCard(LOCK_UNLOCK_FAILED)
    ELSE IF BitAnd(card_status, WP_VIOLATION) # Zero32 THEN ErrCard(WP_VIOLATION)
    ELSE IF BitAnd(card_status, ERASE_PARAM) # Zero32 THEN ErrCard(ERASE_PARAM)
    ELSE IF BitAnd(card_status, ERASE_SEQ_ERROR) # Zero32 THEN ErrCard(ERASE_SEQ_ERROR)
    ELSE IF BitAnd(card_status, BLOCK_LEN_ERROR) # Zero32 THEN ErrCard(BLOCK_LEN_ERROR)
    ELSE IF BitAnd(card_status, ADDRESS_MISALIGNED) # Zero32 THEN ErrCard(ADDRESS_MISALIGNED)
    ELSE IF BitAnd(card_status, ADDRESS_OUT_OF_RANGE) # Zero32 THEN ErrCard(ADDRESS_OUT_OF_RANGE)
    ELSE ErrCard(ERROR)

(***************************************************************************)
(* The tail of get_cmd_resp6: the R6 status field to an RCA or an error.   *)
(***************************************************************************)
\* Mutant: the RCA is taken from the low half-word of the status field.
get_cmd_resp6_status_low(card_status) ==
    IF BitAnd(card_status,
              BitOr(BitOr(R6_CRC_FAILED, R6_ILLEGAL_COMMAND), R6_GENERAL_UNKNOWN_ERROR)) = Zero32
    THEN OkRca(card_status.lo)
    ELSE IF BitAnd(card_status, R6_CRC_FAILED) # Zero32 THEN ErrCard(R6_CRC_FAILED)
    ELSE IF BitAnd(card_status, R6_ILLEGAL_COMMAND) # Zero32 THEN ErrCard(R6_ILLEGAL_COMMAND)
    ELSE ErrCard(R6_GENERAL_UNKNOWN_ERROR)

\* Mutant: illegal-command is tested before CRC-failed.
get_cmd_resp6_status_swapped(card_status) ==
    IF BitAnd(card_status,
              BitOr(BitOr(R6_CRC_FAILED, R6_ILLEGAL_COMMAND), R6_GENERAL_UNKNOWN_ERROR)) = Zero32
    THEN OkRca(card_status.hi)
    ELSE IF BitAnd(card_status, R6_ILLEGAL_COMMAND) # Zero32 THEN ErrCard(R6_ILLEGAL_COMMAND)
    ELSE IF BitAnd(card_status, R6_CRC_FAILED) # Zero32 THEN ErrCard(R6_CRC_FAILED)
    ELSE ErrCard(R6_GENERAL_UNKNOWN_ERROR)

\* (card_status >> 16) as u16 is the high half of the word.
get_cmd_resp6_status(card_status) ==
    IF BitAnd(card_status,
              BitOr(BitOr(R6_CRC_FAILED, R6_ILLEGAL_COMMAND), R6_GENERAL_UNKNOWN_ERROR)) = Zero32
    THEN OkRca(card_status.hi)
    ELSE IF BitAnd(card_status, R6_CRC_FAILED) # Zero32 THEN ErrCard(R6_CRC_FAILED)
    ELSE IF BitAnd(card_status, R6_ILLEGAL_COMMAND) # Zero32 THEN ErrCard(R6_ILLEGAL_COMMAND)
    ELSE ErrCard(R6_GENERAL_UNKNOWN_ERROR)

(***************************************************************************)
(* Inputs of the model.                                                    *)
(***************************************************************************)
\* The ten static flags that clear_all_static_status_flags clears.
StaticFlags == {"ccrcfail", "dcrcfail", "ctimeout", "dtimeout", "txunderr",
                "rxoverr", "cmdrend", "cmdsent", "dataend", "dbckend"}

\* The four flags of the command path.
CmdFlags == {"cmdsent", "cmdrend", "ccrcfail", "ctimeout"}

\* The fixed timeout of every response-bearing catalog command.
RespTimeout == 5000

\* Timeouts a caller passes to idle.
IdleTimeouts == {0, 2}

\* Tick values at which a call may start: 0, and 2^32 - 1 (now + timeout
\* wraps, and so does the counter at its next advance).
StartTicks == {Zero32, W(65535, 65535)}

\* By how much the tick counter is seen to advance between two reads.
TickSteps == {1, 5000}

\* Arguments callers pass to app: RCA 0 and RCA 1 in the upper half-word.
Args == {Zero32, W(1, 0)}

\* Relative card addresses (upper half-word) passed to send_csd, sel_desel.
Rcas == {W(1, 0)}

\* Block addresses passed to the read and write commands.
BlockAdds == {W(0, 8)}

\* Capacity words passed to app_oper: 0, 1, 0x4000_0000, 0x0010_0000.
Capacities == {Zero32, W(0, 1), W(16384, 0), W(16, 0)}

\* Card-status words an R1 response carries: ready-for-data with no error,
\* illegal-command with block-length-error, the general error bit alone.
R1Words == {W(0, 2304), W(8256, 0), W(8, 0)}

\* Status fields an R6 response carries: 0x0001_0203, 0xFFFF_1FFF and
\* 0x0002_C203 (CRC-failed and illegal-command set).
R6Words == {W(1, 515), W(65535, 8191), W(2, 49667)}

\* The index a response echoes: the issued one, or 0x3F (what the controller
\* reports for a response without index, here also a corrupted echo).
Echoes(idx) == {idx, 63}

RespWords(idx) == IF idx = 3 THEN R6Words ELSE R1Words

\* Sets of at most k bit positions of a u32.
RECURSIVE BitSets(_)
BitSets(k) ==
    IF k = 0 THEN {{}}
    ELSE LET P == BitSets(k - 1)
         IN  P \cup {s \cup {b} : s \in P, b \in 0..31}

\* The status words the classifiers are run on.
StatusWords == {WordOfBits(S) : S \in BitSets(MaxSetBits)} \cup {W(1, 515)}

(***************************************************************************)
(* Bookkeeping of a call, for stating the properties (not program state):  *)
(* n       calls started so far                                            *)
(* tmo     the timeout of this call, in ticks                              *)
(* now     the tick value at entry                                         *)
(* events  tick advances seen during this call                             *)
(* elapsed ticks elapsed since entry                                       *)
(* flagAt  elapsed when the awaited flag (cmdsent for idle, cmdrend        *)
(*         otherwise) was first set during the call, -1 if never           *)
(* seen    the completion flags the software has read as set               *)
(* status  the card status word the decoder read                           *)
(* waitok  wait_resp (wait_resp_crc where the decoder uses it) returned Ok *)
(* echo    the echoed index the decoder read from RESPCMD, -1 if none      *)
(* input   the argument the caller passed                                  *)
(* stale   the command flags that were already latched at entry            *)
(* late    the controller set a flag after the polling loop was left       *)
(***************************************************************************)
Awaited(f) == IF f = "idle" THEN "cmdsent" ELSE "cmdrend"

NewCall(f, tmo, input) ==
    [n |-> call.n + 1, tmo |-> tmo, now |-> ticks, events |-> 0, elapsed |-> 0,
     flagAt |-> IF Awaited(f) \in sta THEN 0 ELSE -1,
     seen |-> {}, status |-> Zero32, waitok |-> FALSE, echo |-> -1,
     input |-> input, stale |-> sta \cap CmdFlags, late |-> FALSE]

\* Calls started in one behaviour.
MaxCalls == 2

(***************************************************************************)
(* send_cmd: the dispatcher.  Writing CMD with CPSMEN set starts the       *)
(* command-path state machine of the controller.                           *)
(***************************************************************************)
RegWrite(r, a, i, c) == [reg |-> r, arg |-> a, idx |-> i, clr |-> c]

\* Mutant: the command is issued a second time.
send_cmd_twice(argument, cmdidx, cpsmen, waitint, waitresp) ==
    /\ arg_reg' = argument
    /\ cmd_reg' = [cpsmen |-> cpsmen, waitint |-> waitint,
                   waitresp |-> waitresp, cmdindex |-> cmdidx]
    /\ cpsm' = cpsmen
    /\ writes' = << RegWrite("ARG", argument, -1, {}),
                    RegWrite("CMD", Zero32, cmdidx, {}),
                    RegWrite("ARG", argument, -1, {}),
                    RegWrite("CMD", Zero32, cmdidx, {}) >>

\* Mutant: the command register is written before the argument register.
send_cmd_cmd_first(argument, cmdidx, cpsmen, waitint, waitresp) ==
    /\ arg_reg' = argument
    /\ cmd_reg' = [cpsmen |-> cpsmen, waitint |-> waitint,
                   waitresp |-> waitresp, cmdindex |-> cmdidx]
    /\ cpsm' = cpsmen
    /\ writes' = << RegWrite("CMD", Zero32, cmdidx, {}),
                    RegWrite("ARG", argument, -1, {}) >>

send_cmd(argument, cmdidx, cpsmen, waitint, waitresp) ==
    /\ arg_reg' = argument
    /\ cmd_reg' = [cpsmen |-> cpsmen, waitint |-> waitint,
                   waitresp |-> waitresp, cmdindex |-> cmdidx]
    /\ cpsm' = cpsmen
    /\ writes' = << RegWrite("ARG", argument, -1, {}),
                    RegWrite("CMD", Zero32, cmdidx, {}) >>

\* Entry of the wait that follows send_cmd: `timeout = ticks() + timeout`.
Enter(f, dec, idx, tmo, input) ==
    /\ pc = "ready"
    /\ call.n < MaxCalls
    /\ ticks \in StartTicks
    /\ fn' = f
    /\ decoder' = dec
    /\ cmd_idx' = idx
    /\ timeout' = AddU32(ticks, W(0, tmo))
    /\ result' = NoResult
    /\ call' = NewCall(f, tmo, input)
    /\ pc' = "poll"
    /\ UNCHANGED << sta, respcmd, resp1, ticks, cs_in, cs_out >>

(***************************************************************************)
(* The command catalog.                                                    *)
(***************************************************************************)
idle ==
    \E t \in IdleTimeouts :
        send_cmd(Zero32, 0, TRUE, FALSE, 0) /\ Enter("idle", "idle", 0, t, Zero32)

app ==
    \E argument \in Args :
        send_cmd(argument, 55, TRUE, FALSE, 1) /\ Enter("app", "resp1", 55, RespTimeout, argument)

\* Mutant: the capacity word is added to the constant, not or-ed into it.
app_oper_arg_add(capacity) == AddU32(W(32784, 0), capacity)

\* 0x8010_0000 | capacity
app_oper_arg(capacity) == BitOr(W(32784, 0), capacity)

app_oper ==
    \E capacity \in Capacities :
        /\ send_cmd(app_oper_arg(capacity), 41, TRUE, FALSE, 1)
        /\ Enter("app_oper", "resp3", 41, RespTimeout, capacity)

oper_cond ==
    send_cmd(W(0, 426), 8, TRUE, FALSE, 1) /\ Enter("oper_cond", "oper_cond", 8, RespTimeout, Zero32)

send_cid ==
    send_cmd(Zero32, 2, TRUE, FALSE, 3) /\ Enter("send_cid", "resp2", 2, RespTimeout, Zero32)

set_rel_add ==
    send_cmd(Zero32, 3, TRUE, FALSE, 1) /\ Enter("set_rel_add", "resp6", 3, RespTimeout, Zero32)

send_csd ==
    \E rca \in Rcas :
        send_cmd(rca, 9, TRUE, FALSE, 3) /\ Enter("send_csd", "resp2", 9, RespTimeout, rca)

sel_desel ==
    \E rca \in Rcas :
        send_cmd(rca, 7, TRUE, FALSE, 1) /\ Enter("sel_desel", "resp1", 7, RespTimeout, rca)

block_length ==
    \E block_size \in {W(0, 512)} :
        /\ send_cmd(block_size, 16, TRUE, FALSE, 1)
        /\ Enter("block_length", "resp1", 16, RespTimeout, block_size)

write_single_blk ==
    \E block_add \in BlockAdds :
        /\ send_cmd(block_add, 24, TRUE, FALSE, 1)
        /\ Enter("write_single_blk", "resp1", 24, RespTimeout, block_add)

write_multi_blk ==
    \E block_add \in BlockAdds :
        /\ send_cmd(block_add, 25, TRUE, FALSE, 1)
        /\ Enter("write_multi_blk", "resp1", 25, RespTimeout, block_add)

read_single_blk ==
    \E block_add \in BlockAdds :
        /\ send_cmd(block_add, 17, TRUE, FALSE, 1)
        /\ Enter("read_single_blk", "resp1", 17, RespTimeout, block_add)

read_multi_blk ==
    \E block_add \in BlockAdds :
        /\ send_cmd(block_add, 18, TRUE, FALSE, 1)
        /\ Enter("read_multi_blk", "resp1", 18, RespTimeout, block_add)

stop_transfer ==
    send_cmd(Zero32, 12, TRUE, FALSE, 1) /\ Enter("stop_transfer", "resp1", 12, RespTimeout, Zero32)

(***************************************************************************)
(* The steps of the running function after send_cmd.                       *)
(***************************************************************************)
Return(r) == pc' = "ready" /\ result' = r

\* The flags the polling loop of the running function looks at.
Polled == IF decoder = "idle" THEN {"cmdsent"} ELSE {"cmdrend", "ccrcfail", "ctimeout"}

\* Mutant: the loop condition does not test the tick against the deadline.
Poll_no_deadline ==
    /\ pc = "poll"
    /\ IF sta \cap Polled = {}
       THEN UNCHANGED << pc, call >>
       ELSE /\ pc' = "deadline"
            /\ call' = [call EXCEPT !.seen = sta \cap Polled]
    /\ UNCHANGED << sta, arg_reg, cmd_reg, respcmd, resp1, cpsm, ticks, fn, decoder,
                    cmd_idx, timeout, result, writes, cs_in, cs_out >>

\* One evaluation of the loop condition of idle (lines 10-11) or wait_resp
\* (lines 211-214).  The flags only get set while the loop runs, so reading
\* the tick and the flags in one step loses no interleaving.  The status
\* register is read only if the tick is below the deadline.
Poll ==
    /\ pc = "poll"
    /\ IF LtU32(ticks, timeout) /\ sta \cap Polled = {}
       THEN UNCHANGED << pc, call >>
       ELSE /\ pc' = "deadline"
            /\ call' = [call EXCEPT !.seen =
                           IF LtU32(ticks, timeout) THEN sta \cap Polled ELSE {}]
    /\ UNCHANGED << sta, arg_reg, cmd_reg, respcmd, resp1, cpsm, ticks, fn, decoder,
                    cmd_idx, timeout, result, writes, cs_in, cs_out >>

\* Mutant: the tick re-read after the loop never reports the deadline.
DeadlineCheck_skipped ==
    /\ pc = "deadline"
    /\ IF decoder = "idle"
       THEN Return(Ok) /\ call' = [call EXCEPT !.waitok = TRUE]
       ELSE pc' = "chk_ctimeout" /\ UNCHANGED << result, call >>
    /\ UNCHANGED << sta, arg_reg, cmd_reg, respcmd, resp1, cpsm, ticks, fn, decoder,
                    cmd_idx, timeout, writes, cs_in, cs_out >>

\* The tick re-read after the loop: idle lines 13-17, wait_resp lines 216-218.
DeadlineCheck ==
    /\ pc = "deadline"
    /\ IF GeU32(ticks, timeout)
       THEN Return(ErrTimeout) /\ UNCHANGED call
       ELSE IF decoder = "idle"
       THEN Return(Ok) /\ call' = [call EXCEPT !.waitok = TRUE]
       ELSE pc' = "chk_ctimeout" /\ UNCHANGED << result, call >>
    /\ UNCHANGED << sta, arg_reg, cmd_reg, respcmd, resp1, cpsm, ticks, fn, decoder,
                    cmd_idx, timeout, writes, cs_in, cs_out >>

\* Mutant: the CRC-failure flag is tested, and reported, before the
\* hardware-timeout flag.
CtimeoutCheck_crc_first ==
    /\ pc = "chk_ctimeout"
    /\ IF "ccrcfail" \in sta
       THEN /\ sta' = sta \ {"ccrcfail"}
            /\ writes' = Append(writes, RegWrite("ICR", Zero32, -1, {"ccrcfail"}))
            /\ call' = [call EXCEPT !.seen = @ \cup {"ccrcfail"}]
            /\ Return(ErrSdmmc("CmdCrcFailed"))
       ELSE IF "ctimeout" \in sta
       THEN /\ sta' = sta \ {"ctimeout"}
            /\ writes' = Append(writes, RegWrite("ICR", Zero32, -1, {"ctimeout"}))
            /\ call' = [call EXCEPT !.seen = @ \cup {"ctimeout"}]
            /\ Return(ErrSdmmc("CmdRespTimeout"))
       ELSE /\ pc' = CASE decoder = "resp3" -> "clear"
                       [] decoder = "oper_cond" -> "clr_cmdrend"
                       [] OTHER -> "chk_crc"
            /\ call' = [call EXCEPT !.waitok = decoder \in {"resp3", "oper_cond"}]
            /\ UNCHANGED << sta, writes, result >>
    /\ UNCHANGED << arg_reg, cmd_reg, respcmd, resp1, cpsm, ticks, fn, decoder,
                    cmd_idx, timeout, cs_in, cs_out >>

\* wait_resp lines 220-227.
CtimeoutCheck ==
    /\ pc = "chk_ctimeout"
    /\ IF "ctimeout" \in sta
       THEN /\ sta' = sta \ {"ctimeout"}
            /\ writes' = Append(writes, RegWrite("ICR", Zero32, -1, {"ctimeout"}))
            /\ call' = [call EXCEPT !.seen = @ \cup {"ctimeout"}]
            /\ Return(ErrSdmmc("CmdRespTimeout"))
       ELSE /\ pc' = CASE decoder = "resp3" -> "clear"
                       [] decoder = "oper_cond" -> "clr_cmdrend"
                       [] OTHER -> "chk_crc"
            /\ call' = [call EXCEPT !.waitok = decoder \in {"resp3", "oper_cond"}]
            /\ UNCHANGED << sta, writes, result >>
    /\ UNCHANGED << arg_reg, cmd_reg, respcmd, resp1, cpsm, ticks, fn, decoder,
                    cmd_idx, timeout, cs_in, cs_out >>

\* Mutant: the CRC failure is returned with the flag left set.
CrcCheck_keeps ==
    /\ pc = "chk_crc"
    /\ IF "ccrcfail" \in sta
       THEN /\ call' = [call EXCEPT !.seen = @ \cup {"ccrcfail"}]
            /\ Return(ErrSdmmc("CmdCrcFailed"))
            /\ UNCHANGED << sta, writes >>
       ELSE /\ pc' = IF decoder = "resp2" THEN "clear" ELSE "chk_idx"
            /\ call' = [call EXCEPT !.waitok = TRUE]
            /\ UNCHANGED << sta, writes, result >>
    /\ UNCHANGED << arg_reg, cmd_reg, respcmd, resp1, cpsm, ticks, fn, decoder,
                    cmd_idx, timeout, cs_in, cs_out >>

\* wait_resp_crc lines 233-240.
CrcCheck ==
    /\ pc = "chk_crc"
    /\ IF "ccrcfail" \in sta
       THEN /\ sta' = sta \ {"ccrcfail"}
            /\ writes' = Append(writes, RegWrite("ICR", Zero32, -1, {"ccrcfail"}))
            /\ call' = [call EXCEPT !.seen = @ \cup {"ccrcfail"}]
            /\ Return(ErrSdmmc("CmdCrcFailed"))
       ELSE /\ pc' = IF decoder = "resp2" THEN "clear" ELSE "chk_idx"
            /\ call' = [call EXCEPT !.waitok = TRUE]
            /\ UNCHANGED << sta, writes, result >>
    /\ UNCHANGED << arg_reg, cmd_reg, respcmd, resp1, cpsm, ticks, fn, decoder,
                    cmd_idx, timeout, cs_in, cs_out >>

\* Mutant: a mismatch of the echoed index is read but does not end the decode.
IndexCheck_ignored ==
    /\ pc = "chk_idx"
    /\ pc' = "clear"
    /\ call' = [call EXCEPT !.echo = respcmd]
    /\ UNCHANGED << sta, arg_reg, cmd_reg, respcmd, resp1, cpsm, ticks, fn, decoder,
                    cmd_idx, timeout, result, writes, cs_in, cs_out >>

\* get_cmd_resp1 lines 151-155, get_cmd_resp6 lines 186-190.
IndexCheck ==
    /\ pc = "chk_idx"
    /\ IF respcmd # cmd_idx
       THEN Return(ErrSdmmc("CmdCrcFailed"))
       ELSE pc' = "clear" /\ UNCHANGED result
    /\ call' = [call EXCEPT !.echo = respcmd]
    /\ UNCHANGED << sta, arg_reg, cmd_reg, respcmd, resp1, cpsm, ticks, fn, decoder,
                    cmd_idx, timeout, writes, cs_in, cs_out >>

\* Mutant: the command-sent flag is not among the flags written to ICR.
clear_all_static_status_flags_nosent(flags) == flags \ (StaticFlags \ {"cmdsent"})

\* clear_all_static_status_flags: STA after the write-one-to-clear of the ten
\* bits to ICR.
clear_all_static_status_flags(flags) == flags \ StaticFlags

\* The call of clear_all_static_status_flags in a decoder (lines 157, 170,
\* 178, 192); get_cmd_resp2 and get_cmd_resp3 return Ok after it.
ClearFlags ==
    /\ pc = "clear"
    /\ sta' = clear_all_static_status_flags(sta)
    /\ writes' = Append(writes, RegWrite("ICR", Zero32, -1, StaticFlags))
    /\ IF decoder \in {"resp2", "resp3"}
       THEN Return(Ok)
       ELSE pc' = "read_status" /\ UNCHANGED result
    /\ UNCHANGED << arg_reg, cmd_reg, respcmd, resp1, cpsm, ticks, fn, decoder,
                    cmd_idx, timeout, call, cs_in, cs_out >>

\* oper_cond lines 42-44.
ClearCmdrend ==
    /\ pc = "clr_cmdrend"
    /\ sta' = sta \ {"cmdrend"}
    /\ writes' = Append(writes, RegWrite("ICR", Zero32, -1, {"cmdrend"}))
    /\ Return(Ok)
    /\ UNCHANGED << arg_reg, cmd_reg, respcmd, resp1, cpsm, ticks, fn, decoder,
                    cmd_idx, timeout, call, cs_in, cs_out >>

\* The read of RESP1 and the classification of the status word:
\* get_cmd_resp1 lines 160-164, get_cmd_resp6 lines 195-205.
ReadStatus ==
    /\ pc = "read_status"
    /\ call' = [call EXCEPT !.status = resp1]
    /\ IF decoder = "resp1"
       THEN Return(check_for_errors(resp1))
       ELSE Return(get_cmd_resp6_status(resp1))
    /\ UNCHANGED << sta, arg_reg, cmd_reg, respcmd, resp1, cpsm, ticks, fn, decoder,
                    cmd_idx, timeout, writes, cs_in, cs_out >>

(***************************************************************************)
(* The controller and the tick interrupt.                                  *)
(***************************************************************************)
\* The controller sets `flag` now: note when the awaited flag of the running
\* call got set first, and whether the polling loop had been left already.
NoteFlag(flag) ==
    call' = [call EXCEPT
                !.flagAt = IF pc # "ready" /\ flag = Awaited(fn) /\ @ = -1
                           THEN call.elapsed ELSE @,
                !.late = @ \/ pc \notin {"ready", "poll"}]

HwUnchanged == UNCHANGED << arg_reg, cmd_reg, ticks, pc, fn, decoder, cmd_idx,
                            timeout, result, writes, cs_in, cs_out >>

\* A command without response has been sent.
HwCmdSent ==
    /\ cpsm /\ cmd_reg.waitresp = 0
    /\ sta' = sta \cup {"cmdsent"}
    /\ cpsm' = FALSE
    /\ NoteFlag("cmdsent")
    /\ HwUnchanged /\ UNCHANGED << respcmd, resp1 >>

\* A response has been received and has passed the CRC check.
HwResponse ==
    /\ cpsm /\ cmd_reg.waitresp # 0
    /\ \E idx \in Echoes(cmd_reg.cmdindex), w \in RespWords(cmd_reg.cmdindex) :
           respcmd' = idx /\ resp1' = w
    /\ sta' = sta \cup {"cmdrend"}
    /\ cpsm' = FALSE
    /\ NoteFlag("cmdrend")
    /\ HwUnchanged

\* A response has been received and has failed the CRC check.
HwCrcFail ==
    /\ cpsm /\ cmd_reg.waitresp # 0
    /\ sta' = sta \cup {"ccrcfail"}
    /\ cpsm' = FALSE
    /\ NoteFlag("ccrcfail")
    /\ HwUnchanged /\ UNCHANGED << respcmd, resp1 >>

\* No response within the controller's 64 card-clock periods.
HwTimeout ==
    /\ cpsm /\ cmd_reg.waitresp # 0
    /\ sta' = sta \cup {"ctimeout"}
    /\ cpsm' = FALSE
    /\ NoteFlag("ctimeout")
    /\ HwUnchanged /\ UNCHANGED << respcmd, resp1 >>

\* The tick interrupt, while the running function still reads the counter.
Tick ==
    /\ pc \in {"poll", "deadline"}
    /\ call.events < MaxTickEvents
    /\ \E d \in TickSteps :
           /\ ticks' = AddU32(ticks, W(0, d))
           /\ call' = [call EXCEPT !.events = @ + 1, !.elapsed = @ + d]
    /\ UNCHANGED << sta, arg_reg, cmd_reg, respcmd, resp1, cpsm, pc, fn, decoder,
                    cmd_idx, timeout, result, writes, cs_in, cs_out >>

\* Time passing between two calls.
Elapse ==
    /\ pc = "ready"
    /\ call.n < MaxCalls
    /\ \E t \in StartTicks : ticks' = t
    /\ UNCHANGED << sta, arg_reg, cmd_reg, respcmd, resp1, cpsm, pc, fn, decoder,
                    cmd_idx, timeout, result, writes, call, cs_in, cs_out >>

(***************************************************************************)
(* The controller after reset, no call made yet.                           *)
(***************************************************************************)
Init ==
    /\ sta = {}
    /\ arg_reg = Zero32
    /\ cmd_reg = [cpsmen |-> FALSE, waitint |-> FALSE, waitresp |-> 0, cmdindex |-> 0]
    /\ respcmd = 0
    /\ resp1 = Zero32
    /\ cpsm = FALSE
    /\ ticks = Zero32
    /\ pc = "ready"
    /\ fn = "none"
    /\ decoder = "none"
    /\ cmd_idx = 0
    /\ timeout = Zero32
    /\ result = NoResult
    /\ writes = << >>
    /\ call = [n |-> 0, tmo |-> 0, now |-> Zero32, events |-> 0, elapsed |-> 0,
               flagAt |-> -1, seen |-> {}, status |-> Zero32, waitok |-> FALSE,
               echo |-> -1, input |-> Zero32, stale |-> {}, late |-> FALSE]
    /\ cs_in = Zero32
    /\ cs_out = NoResult

Next ==
    \/ idle \/ app \/ app_oper \/ oper_cond \/ send_cid \/ set_rel_add
    \/ send_csd \/ sel_desel \/ block_length \/ write_single_blk
    \/ write_multi_blk \/ read_single_blk \/ read_multi_blk \/ stop_transfer
    \/ Poll \/ DeadlineCheck \/ CtimeoutCheck \/ CrcCheck \/ IndexCheck
    \/ ClearFlags \/ ClearCmdrend \/ ReadStatus
    \/ HwCmdSent \/ HwResponse \/ HwCrcFail \/ HwTimeout
    \/ Tick \/ Elapse

Spec == Init /\ [][Next]_vars

\* The steps of the running function: the processor keeps executing it.
Software ==
    \/ Poll \/ DeadlineCheck \/ CtimeoutCheck \/ CrcCheck \/ IndexCheck
    \/ ClearFlags \/ ClearCmdrend \/ ReadStatus

\* The same program with a processor that keeps running the called function
\* and a tick source that keeps advancing (for MaxTickEvents advances a call).
SpecLive == Init /\ [][Next]_vars /\ WF_vars(Software) /\ WF_vars(Tick)

(***************************************************************************)
(* The classifiers run on their own, on every word of StatusWords.         *)
(***************************************************************************)
InitClassify ==
    /\ sta = {}
    /\ arg_reg = Zero32
    /\ cmd_reg = [cpsmen |-> FALSE, waitint |-> FALSE, waitresp |-> 0, cmdindex |-> 0]
    /\ respcmd = 0
    /\ resp1 = Zero32
    /\ cpsm = FALSE
    /\ ticks = Zero32
    /\ pc = "ready"
    /\ fn = "none"
    /\ decoder = "none"
    /\ cmd_idx = 0
    /\ timeout = Zero32
    /\ result = NoResult
    /\ writes = << >>
    /\ call = [n |-> 0, tmo |-> 0, now |-> Zero32, events |-> 0, elapsed |-> 0,
               flagAt |-> -1, seen |-> {}, status |-> Zero32, waitok |-> FALSE,
               echo |-> -1, input |-> Zero32, stale |-> {}, late |-> FALSE]
    /\ cs_in \in StatusWords
    /\ cs_out = NoResult

ClassifyUnchanged == UNCHANGED << sta, arg_reg, cmd_reg, respcmd, resp1, cpsm, ticks,
                                  pc, decoder, cmd_idx, timeout, result, writes,
                                  call, cs_in >>

\* check_for_errors(cs_in)
Classify ==
    /\ fn = "none"
    /\ fn' = "check_for_errors"
    /\ cs_out' = check_for_errors(cs_in)
    /\ ClassifyUnchanged

\* The status test of get_cmd_resp6 on cs_in.
ClassifyR6 ==
    /\ fn = "none"
    /\ fn' = "get_cmd_resp6"
    /\ cs_out' = get_cmd_resp6_status(cs_in)
    /\ ClassifyUnchanged

NextClassify == Classify \/ ClassifyR6

SpecClassify == InitClassify /\ [][NextClassify]_vars

(***************************************************************************)
(* The status flag manager run on its own, from every subset of the ten    *)
(* static flags.  call.n counts the invocations, call.stale holds the      *)
(* flags set before the first one and call.seen the flags left by it.      *)
(***************************************************************************)
\* Invocations of the flag manager in one behaviour.
MaxClears == 2

InitFlags ==
    /\ sta \in SUBSET StaticFlags
    /\ arg_reg = Zero32
    /\ cmd_reg = [cpsmen |-> FALSE, waitint |-> FALSE, waitresp |-> 0, cmdindex |-> 0]
    /\ respcmd = 0
    /\ resp1 = Zero32
    /\ cpsm = FALSE
    /\ ticks = Zero32
    /\ pc = "ready"
    /\ fn = "none"
    /\ decoder = "none"
    /\ cmd_idx = 0
    /\ timeout = Zero32
    /\ result = NoResult
    /\ writes = << >>
    /\ call = [n |-> 0, tmo |-> 0, now |-> Zero32, events |-> 0, elapsed |-> 0,
               flagAt |-> -1, seen |-> {}, status |-> Zero32, waitok |-> FALSE,
               echo |-> -1, input |-> Zero32, stale |-> {}, late |-> FALSE]
    /\ cs_in = Zero32
    /\ cs_out = NoResult

\* clear_all_static_status_flags(sdmmc), called directly.
ClearAll ==
    /\ call.n < MaxClears
    /\ fn' = "clear_all_static_status_flags"
    /\ sta' = clear_all_static_status_flags(sta)
    /\ writes' = Append(writes, RegWrite("ICR", Zero32, -1, StaticFlags))
    /\ call' = [call EXCEPT !.n = @ + 1,
                            !.stale = IF call.n = 0 THEN sta ELSE @,
                            !.seen = IF call.n = 0 THEN sta' ELSE @]
    /\ UNCHANGED << arg_reg, cmd_reg, respcmd, resp1, cpsm, ticks, pc, decoder,
                    cmd_idx, timeout, result, cs_in, cs_out >>

NextFlags == ClearAll

SpecFlags == InitFlags /\ [][NextFlags]_vars

(***************************************************************************)
(* Properties.                                                             *)
(***************************************************************************)
\* The step in which the running catalog function returns.
Returns == pc # "ready" /\ pc' = "ready"

\* A catalog function has returned and no other has been called since.
Returned(f) == pc = "ready" /\ fn = f

CmdCrcFailed == ErrSdmmc("CmdCrcFailed")

\* The named error bits, in the order in which the classifier tests them.
NamedOrder ==
    << AKE_SEQ_ERROR, ERASE_RESET, CARD_ECC_DISABLED, WP_ERASE_SKIP,
       CID_CSD_OVERWRITE, CC_ERROR, CARD_ECC_FAILED, ILLEGAL_COMMAND,
       COM_CRC_ERROR, LOCK_UNLOCK_FAILED, WP_VIOLATION, ERASE_PARAM,
       ERASE_SEQ_ERROR, BLOCK_LEN_ERROR, ADDRESS_MISALIGNED, ADDRESS_OUT_OF_RANGE >>

R6Order == << R6_CRC_FAILED, R6_ILLEGAL_COMMAND, R6_GENERAL_UNKNOWN_ERROR >>

Has(w, flag) == BitAnd(w, flag) # Zero32

AnyOf(w, order) == \E i \in 1..Len(order) : Has(w, order[i])

\* The first flag of `order` that is set in w.
FirstOf(w, order) ==
    order[CHOOSE i \in 1..Len(order) :
              Has(w, order[i]) /\ \A j \in 1..(i - 1) : ~Has(w, order[j])]

\* Bit b (0..15) of a 16-bit half is set.
Bit16(h, b) == (h \div Pow2(b)) % 2 = 1

\* C1: a response decoder (R1, R2, R3, R6) that has read a completion flag as
\* set returns with all static status flags clear, on its success return and
\* on its error returns (stated for every return but the deadline Timeout).
C1_DecodersReturnClean ==
    [][(Returns /\ decoder \in {"resp1", "resp2", "resp3", "resp6"}
          /\ call'.seen # {} /\ result'.kind # "Timeout")
        => sta' \cap StaticFlags = {}]_vars

\* C2: no polling loop ends on a command flag that was latched before the
\* call, and a command flag that the returning catalog function has read as
\* set is clear when it returns.
C2_NoStaleFlags ==
    [][/\ (pc = "poll" /\ pc' = "deadline") => call'.seen \cap call'.stale = {}
       /\ Returns => sta' \cap call'.seen = {}]_vars

\* C3 as claimed: an R1 decode that returns while the echoed index in RESPCMD
\* differs from the issued index returns ProtocolError{CmdCrcFailed}.
C3_MismatchAlwaysCrcFailed ==
    [][(Returns /\ decoder = "resp1" /\ respcmd # cmd_idx)
        => result' = CmdCrcFailed]_vars

\* C3 amended: once wait_resp_crc has returned normally, an R1 decode that
\* reads an echoed index different from the issued one returns
\* ProtocolError{CmdCrcFailed}, whatever the card status in RESP1.
C3_MismatchAfterWait ==
    (pc = "ready" /\ decoder = "resp1" /\ call.waitok /\ call.echo # cmd_idx)
        => result = CmdCrcFailed

\* An R1 command returned CmdCrcFailed on the echo 0x3F with an error status
\* (illegal-command, block-length-error) in RESP1.
C3_Witness ==
    /\ pc = "ready" /\ decoder = "resp1" /\ call.waitok
    /\ call.echo = 63 /\ cmd_idx # 63
    /\ resp1 = W(8256, 0)
    /\ result = CmdCrcFailed

\* C4: idle started at tick 0 (no wrap of now + timeout): it succeeds if the
\* command-sent flag was set at tick now + k with k < timeout, and fails with
\* Timeout otherwise.
C4_IdleInTime ==
    (Returned("idle") /\ call.now = Zero32)
        => IF call.flagAt >= 0 /\ call.flagAt < call.tmo
           THEN result = Ok
           ELSE result = ErrTimeout

\* The writes to the command register made by the running call.
CmdWrites == SelectSeq(writes, LAMBDA w : w.reg = "CMD")

\* The writes to the argument and command registers made by the running call.
IssueWrites == SelectSeq(writes, LAMBDA w : w.reg \in {"ARG", "CMD"})

\* C5 as claimed: a call of app_oper issues CMD55 and then ACMD41.
C5_AppOperIssues55Then41 ==
    Returned("app_oper")
        => /\ Len(CmdWrites) = 2
           /\ CmdWrites[1].idx = 55
           /\ CmdWrites[2].idx = 41

\* C5 amended: a call app_oper(capacity) issues one command, ACMD41, with the
\* argument 0x8010_0000 | capacity (0x8010_0001 for capacity = 1), and no CMD55.
C5_AppOperIssues41 ==
    (fn = "app_oper")
        => /\ IssueWrites =
                << RegWrite("ARG", W(Or16(32784, call.input.hi), call.input.lo), -1, {}),
                   RegWrite("CMD", Zero32, 41, {}) >>
           /\ (call.input = W(0, 1) => IssueWrites[1].arg = W(32784, 1))
           /\ (call.input = W(16, 0) => IssueWrites[1].arg = W(32784, 0))

\* app_oper(1) has returned, the argument register holds 0x8010_0001.
C5_Witness ==
    /\ Returned("app_oper")
    /\ call.input = W(0, 1)
    /\ arg_reg = W(32784, 1)
    /\ cmd_reg.cmdindex = 41

\* C6: for a status word with a named error bit set, check_for_errors reports
\* the CardError of the named bit that comes first in the fixed order.
C6_FirstNamedBitWins ==
    (fn = "check_for_errors" /\ AnyOf(cs_in, NamedOrder))
        => cs_out = ErrCard(FirstOf(cs_in, NamedOrder))

\* illegal-command and block-length-error both set: illegal-command reported.
C6_Witness ==
    /\ fn = "check_for_errors"
    /\ cs_in = W(8256, 0)
    /\ cs_out = ErrCard(ILLEGAL_COMMAND)

\* C7 as claimed: check_for_errors returns success exactly when no named
\* error bit is set.
C7_OkIffNoNamedBit ==
    (fn = "check_for_errors")
        => (cs_out = Ok <=> ~AnyOf(cs_in, NamedOrder))

\* C7 amended: check_for_errors returns success exactly when no bit of the
\* summary mask is set, that is no named bit and none of bits 17, 18, 19; it
\* never returns success for a word with a named bit set.
C7_OkIffNoSummaryBit ==
    (fn = "check_for_errors")
        => /\ cs_out = Ok <=>
                  /\ ~AnyOf(cs_in, NamedOrder)
                  /\ \A b \in {1, 2, 3} : ~Bit16(cs_in.hi, b)
           /\ AnyOf(cs_in, NamedOrder) => cs_out # Ok

\* Success on 0x0200_0100: two bits set, neither in the summary mask.
C7_Witness ==
    /\ fn = "check_for_errors"
    /\ cs_in = W(512, 256)
    /\ cs_out = Ok

\* C8: check_for_errors returns the catch-all ERROR only for a word with a bit
\* of the summary mask set and no named bit set.
C8_CatchAllOnlyUnnamed ==
    (fn = "check_for_errors" /\ cs_out = ErrCard(ERROR))
        => /\ Has(cs_in, OCR_ERROR_BITS)
           /\ ~AnyOf(cs_in, NamedOrder)

\* The catch-all on 0x0002_0000 (bit 17, in the summary mask, not named).
C8_Witness ==
    /\ fn = "check_for_errors"
    /\ cs_in = W(2, 0)
    /\ cs_out = ErrCard(ERROR)

\* C9: set_rel_add, when wait_resp_crc returned normally, the echoed index
\* read is 3 and the status field read has none of the three R6 error bits,
\* returns the upper 16 bits of the status field (0x0001 for 0x0001_0203).
C9_RcaIsUpperHalf ==
    (Returned("set_rel_add") /\ call.waitok /\ call.echo = 3
       /\ ~AnyOf(call.status, R6Order))
        => /\ result = OkRca(call.status.hi)
           /\ (call.status = W(1, 515) => result.rca = 1)

\* set_rel_add returned RCA 1 for the status field 0x0001_0203.
C9_Witness ==
    /\ Returned("set_rel_add") /\ call.waitok /\ call.echo = 3
    /\ call.status = W(1, 515)
    /\ result = OkRca(1)

\* C10: the R6 status test, when one of the three error bits is set, fails
\* with the CardError of the first set bit in the order CRC-failed,
\* illegal-command, general-unknown-error, and returns no RCA.
C10_R6FirstBitWins ==
    (fn = "get_cmd_resp6" /\ AnyOf(cs_in, R6Order))
        => /\ cs_out = ErrCard(FirstOf(cs_in, R6Order))
           /\ cs_out.rca = -1

\* All three bits set (0x0000_E000): CRC-failed is reported.
C10_Witness ==
    /\ fn = "get_cmd_resp6"
    /\ cs_in = W(0, 57344)
    /\ cs_out = ErrCard(R6_CRC_FAILED)

CmdRespTimeout == ErrSdmmc("CmdRespTimeout")

\* C11: a call that waits with wait_resp (app_oper and its R3 decode among
\* them) and whose polling loop has read, before the deadline, the
\* hardware-timeout flag as set and the response-received flag as clear
\* returns ProtocolError{CmdRespTimeout} with the hardware-timeout flag clear.
C11_HwTimeoutAlwaysReported ==
    [][(Returns /\ decoder # "idle"
          /\ "ctimeout" \in call.seen /\ "cmdrend" \notin call.seen)
        => (result' = CmdRespTimeout /\ "ctimeout" \notin sta')]_vars

\* C12: the step of wait_resp_crc that follows a normal return of wait_resp:
\* with the CRC-failure flag set it clears that flag, and no other, and the
\* call fails with ProtocolError{CmdCrcFailed}; with the flag clear the wait
\* returns normally to its decoder and the status flags and the interrupt-clear
\* register are left as they were.
C12_CrcCheckedAfterWait ==
    [][(pc = "chk_crc" /\ pc' # "chk_crc")
        => IF "ccrcfail" \in sta
           THEN /\ pc' = "ready" /\ result' = CmdCrcFailed
                /\ sta' = sta \ {"ccrcfail"}
                /\ writes' = Append(writes, RegWrite("ICR", Zero32, -1, {"ccrcfail"}))
           ELSE /\ pc' \in {"chk_idx", "clear"} /\ result' = NoResult
                /\ call'.waitok
                /\ sta' = sta /\ writes' = writes]_vars

\* send_cid (R2 decode, no index check) failed with CmdCrcFailed: the loop read
\* the CRC-failure flag, the flag is clear now, the response-received flag of
\* an earlier command is still set.
C12_Witness ==
    /\ Returned("send_cid")
    /\ result = CmdCrcFailed
    /\ "ccrcfail" \in call.seen
    /\ sta = {"cmdrend"}
    /\ writes[Len(writes)] = RegWrite("ICR", Zero32, -1, {"ccrcfail"})

\* C13: a call of a catalog function writes the argument register once and
\* then the command register once, with the index of its command; while the
\* call runs and after it has returned neither register is written again, and
\* a failure result is produced only by the step that returns to the caller.
C13_IssuedOnceNoRetry ==
    [][/\ (pc = "ready" /\ pc' # "ready")
            => /\ IssueWrites' = << RegWrite("ARG", arg_reg', -1, {}),
                                   RegWrite("CMD", Zero32, cmd_idx', {}) >>
               /\ writes' = IssueWrites'
       /\ (pc # "ready")
            => /\ IssueWrites' = IssueWrites
               /\ arg_reg' = arg_reg /\ cmd_reg' = cmd_reg
       /\ (result' # result /\ result'.kind \notin {"none", "Ok"})
            => Returns]_vars

\* The second call of a behaviour failed with CmdRespTimeout: its log holds the
\* two issue writes and the write that cleared the flag, nothing else.
C13_Witness ==
    /\ pc = "ready" /\ call.n = 2
    /\ result = CmdRespTimeout
    /\ Len(IssueWrites) = 2
    /\ Len(writes) = 3

\* The response-wait mode the catalog passes for each function.
CatalogWaitresp(f) ==
    IF f = "idle" THEN 0 ELSE IF f \in {"send_cid", "send_csd"} THEN 3 ELSE 1

\* The argument the catalog passes for function f called with `input`.
CatalogArgument(f, input) ==
    IF f = "app_oper" THEN W(Or16(32784, input.hi), input.lo)
    ELSE IF f = "oper_cond" THEN W(0, 426)
    ELSE input

\* C14: the step in which a catalog function calls send_cmd writes the
\* argument register first and the command register second, with CPSM-enable,
\* wait-for-interrupt, response-wait mode and index as passed, and writes
\* nothing else: the status flags, RESPCMD and RESP1 are as before, nothing is
\* written to the interrupt-clear register and no result is produced.
C14_SendCmdTwoWrites ==
    [][(pc = "ready" /\ pc' # "ready")
        => /\ writes' = << RegWrite("ARG", CatalogArgument(fn', call'.input), -1, {}),
                          RegWrite("CMD", Zero32, cmd_idx', {}) >>
           /\ arg_reg' = CatalogArgument(fn', call'.input)
           /\ cmd_reg' = [cpsmen |-> TRUE, waitint |-> FALSE,
                          waitresp |-> CatalogWaitresp(fn'), cmdindex |-> cmd_idx']
           /\ sta' = sta /\ respcmd' = respcmd /\ resp1' = resp1
           /\ result' = NoResult /\ pc' = "poll"]_vars

\* send_csd has just called send_cmd while flags of the previous command are
\* still latched: argument register = RCA word, command register = index 9
\* with the long-response mode.
C14_Witness ==
    /\ pc = "poll" /\ fn = "send_csd" /\ call.events = 0
    /\ sta # {}
    /\ Len(writes) = 2
    /\ arg_reg = W(1, 0)
    /\ cmd_reg = [cpsmen |-> TRUE, waitint |-> FALSE, waitresp |-> 3, cmdindex |-> 9]

\* C15: after clear_all_static_status_flags none of the ten static flags is
\* set, whatever subset was set before; a second invocation leaves the status
\* register as the first one left it; an invocation with no flag set leaves
\* the status register as it was.
C15_ClearAllIdempotent ==
    [][(fn' = "clear_all_static_status_flags" /\ call'.n = call.n + 1)
        => /\ sta' \cap StaticFlags = {}
           /\ (call.n >= 1 => sta' = call.seen)
           /\ (sta = {} => sta' = sta)]_vars

\* Invoked twice with all ten flags set at the start: no flag is set.
C15_Witness ==
    /\ fn = "clear_all_static_status_flags"
    /\ call.n = 2
    /\ call.stale = StaticFlags
    /\ sta = {}

\* The tick source has made all its advances of this call and the tick is
\* still below the deadline, with no polled flag set.
TicksExhausted ==
    /\ pc = "poll" /\ call.events = MaxTickEvents
    /\ LtU32(ticks, timeout) /\ sta \cap Polled = {}

\* C16: every wait terminates: a call whose polling loop (idle, wait_resp) is
\* running returns, whether or not a flag ever gets set, unless the tick
\* source stops advancing while the tick is below the deadline and no flag is
\* set; once a poll finds the tick at or past the deadline the loop is left
\* and the call returns.
C16_WaitTerminates ==
    (pc = "poll") ~> (pc = "ready" \/ TicksExhausted)

\* app_oper returned Timeout after the tick advanced, no flag was ever set.
C16_Witness ==
    /\ Returned("app_oper")
    /\ result = ErrTimeout
    /\ call.events >= 1 /\ call.elapsed >= call.tmo
    /\ sta = {} /\ cpsm

\* C17: app_oper (R3 decode): when the polling loop ends before the deadline
\* having read the CRC-failure flag as set and the hardware-timeout flag as
\* clear, the call succeeds and all static status flags, CRC-failure included,
\* are clear when it returns.
C17_R3IgnoresCrcFailure ==
    [][(Returns /\ fn = "app_oper"
          /\ "ccrcfail" \in call.seen /\ "ctimeout" \notin call.seen)
        => (result' = Ok /\ sta' \cap StaticFlags = {})]_vars

\* The step in which wait_resp returns Ok(()) to its caller.
WaitRespReturnsOk == pc = "chk_ctimeout" /\ pc' \in {"chk_crc", "clear", "clr_cmdrend"}

C19_InTimeResponseNotTimeout ==
    [][(Returns /\ decoder # "idle" /\ call.now = Zero32
          /\ call.flagAt >= 0 /\ call.flagAt < call.tmo
          /\ "ctimeout" \notin sta)
        => (result' # ErrTimeout /\ result' # CmdRespTimeout)]_vars

\* The flags that were set when the polling loop was left: those the loop
\* read and those still in the status register (the decoder clears flags only
\* after its flag tests, or in the step that returns).
FlagsLeft == sta \cup call.seen

\* C20: the R1 decode returns exactly the result of the first condition that
\* holds, in the order: deadline passed at the tick re-read (Timeout),
\* hardware-timeout flag (CmdRespTimeout), CRC-failure flag (CmdCrcFailed),
\* echoed index different from the issued one (CmdCrcFailed), card-status
\* error (CardError of the classifier), and success when none holds.  The
\* conditions are those the polling loop left behind, with no controller
\* event after the loop.
C20_R1ErrorPriority ==
    [][(Returns /\ decoder = "resp1" /\ ~call.late)
        => result' =
              IF GeU32(ticks, timeout) THEN ErrTimeout
              ELSE IF "ctimeout" \in FlagsLeft THEN CmdRespTimeout
              ELSE IF "ccrcfail" \in FlagsLeft THEN CmdCrcFailed
              ELSE IF respcmd # cmd_idx THEN CmdCrcFailed
              ELSE check_for_errors(resp1)]_vars

\* An R1 command returned CmdRespTimeout while RESPCMD held another index and
\* RESP1 an error status, left with the response-received flag by the
\* response to the command before it.
C20_Witness ==
    /\ pc = "ready" /\ decoder = "resp1" /\ ~call.late
    /\ result = CmdRespTimeout
    /\ call.seen = {"cmdrend", "ctimeout"}
    /\ respcmd # cmd_idx
    /\ check_for_errors(resp1) # Ok

====
